---- MODULE Spec2Model ----
(***************************************************************************)
(* State-machine model of the AgentBuilder main process: the agent store   *)
(* (agents.repo.ts), the audit store (audit.repo.ts) and the run           *)
(* coordinator (runner.ipc.ts: runner:start, runner:stop, runner:confirm   *)
(* and the asynchronous runAgent).                                         *)
(*                                                                         *)
(* One action is one turn of the Node event loop: an IPC handler together  *)
(* with every synchronous call it makes, or one timer wake-up of runAgent  *)
(* together with the promise callbacks (finally, .catch) that run before   *)
(* the next turn.                                                          *)
(***************************************************************************)
EXTENDS Integers, Sequences, FiniteSets, TLC

\* ---------------------------------------------------------------- bounds
MaxExec == 2      \* runner:start calls that get past getAgent
MaxAgents == 1    \* agent ids (uuidv4 values) ever generated
MaxConf == 1      \* confirmation ids ever generated
MaxStored == 2    \* agent ids ever generated in the agent-store specification
MaxPending == 3   \* confirmation ids ever generated by steps that need approval
MaxPrompts == 2   \* the same, in the specification of session approvals
StepPos == 1      \* chunks a run has streamed when its tool steps are taken
MaxDialogRuns == 1 \* runs the window starts in the specification of its dialog
MaxInvokes == 1   \* invokes of the window the main process has not taken yet
MaxInFlight == 2  \* messages to the window it has not handled yet

AgentIds == 1..MaxAgents
ConfIds == 1..MaxConf
ExecIds == 1..MaxExec
StoreIds == 1..MaxStored
PendingIds == 1..MaxPending
Commands == {"git status", "git log"}
RunIds == {"r1", "r2"}
Names == {<<>>, <<"a">>}
Messages == {<<"m">>}
ApiKeyRefs == {<<>>, <<"k">>}
Decisions == {"allow-once", "allow-session", "deny"}
None == <<>>           \* an optional field that is not given
Some(v) == <<v>>       \* an optional field that is given

\* ------------------------------------------------------------- constants
NameMax == 128
PayloadSlice == 200
DefaultQueryLimit == 100

VARIABLES
  agents,      \* table agents: id -> row
  agentSeq,    \* number of uuids handed out by createAgent / importAgent
  activeRuns,  \* Map runId -> RunState [owner, confirmations]
  exec,        \* one record per runner:start call that created a RunState
  nExec,       \* number of such calls so far
  events,      \* per execution, the events passed to emitToRenderer, in order
  auditLog,    \* table audit_log, in insertion order
  auditSeq,    \* sqlite_sequence of audit_log: the largest id ever inserted
  sandbox,     \* one call of runCodeBlock: its arguments and what it returned
  settings,    \* table settings
  confOf,      \* confirmation id -> execution that registered it
  resolved,    \* confirmation id -> decisions its resolve-callback was called with
  lastCall,    \* the last IPC request and the response it returned
  renderer     \* the window: events sent to it and not yet handled, and its store

vars == <<agents, agentSeq, activeRuns, exec, nExec, events, auditLog,
          auditSeq, sandbox, settings, confOf, resolved, lastCall, renderer>>

\* -------------------------------------------------------------- helpers
Min(a, b) == IF a < b THEN a ELSE b

Slice(s, n) == SubSeq(s, 1, Min(n, Len(s)))

ok(op, arg) == [op |-> op, arg |-> arg, ok |-> TRUE, error |-> "none"]

err(op, arg, error) == [op |-> op, arg |-> arg, ok |-> FALSE, error |-> error]

MapDelete(m, k) == [x \in DOMAIN m \ {k} |-> m[x]]

MapSet(m, k, v) == [x \in DOMAIN m \cup {k} |-> IF x = k THEN v ELSE m[x]]

\* ------------------------------------------------------- schemas (zod)
\* AnthropicProviderSchema: apiKeyRef is z.string().min(1).
ProviderConfigSchema(provider) == Len(provider.apiKeyRef) >= 1

DEFAULT_PROVIDER == [apiKeyRef |-> <<>>]

\* tool.schema.ts.  A permissions object maps some of the tools to a
\* sub-policy; of a sub-policy only the enabled flag is kept, which a JSON
\* document may leave out.
Tools == {"filesystem", "http", "shell", "codeExec"}

\* enabled: z.boolean().default(false), the same in the four sub-policies
PermissionEnabledDefault_On == TRUE

PermissionEnabledDefault == FALSE

\* ToolPermissionsSchema.default({}).parse(raw)
ToolPermissionsSchema(raw) ==
  LET given == IF raw = None THEN <<>> ELSE raw[1]
  IN [t \in Tools |->
        [enabled |-> IF t \in DOMAIN given /\ given[t].enabled # None
                     THEN given[t].enabled
                     ELSE Some(PermissionEnabledDefault)]]

DEFAULT_TOOL_PERMISSIONS == [t \in Tools |-> [enabled |-> Some(FALSE)]]

DefaultSystemPrompt == "You are a helpful AI assistant."

createDefaultGraph ==
  [nodes |-> Some(<<"node-input", "node-llm", "node-output">>),
   edges |-> Some(<<"edge-1", "edge-2">>)]

\* graph: z.object({nodes: ...default([]), edges: ...default([])})
GraphSchema(graph) ==
  [nodes |-> IF graph.nodes = None THEN Some(<<>>) ELSE graph.nodes,
   edges |-> IF graph.edges = None THEN Some(<<>>) ELSE graph.edges]

\* AgentDefinitionSchema.parse(raw): the parsed agent, or a throw.
\* name is z.string().min(1).max(128); graph is required; systemPrompt,
\* codeBlocks, permissions, tags and auditEnabled have defaults.
AgentDefinitionSchemaOk(raw) ==
  /\ Len(raw.name) >= 1
  /\ Len(raw.name) <= NameMax
  /\ ProviderConfigSchema(raw.provider)
  /\ raw.graph # None

AgentDefinitionSchema(raw) ==
  IF AgentDefinitionSchemaOk(raw)
  THEN [kind |-> "agent",
        agent |-> [name |-> raw.name,
                   provider |-> raw.provider,
                   systemPrompt |-> IF raw.systemPrompt = None
                                    THEN DefaultSystemPrompt
                                    ELSE raw.systemPrompt[1],
                   graph |-> GraphSchema(raw.graph[1]),
                   codeBlocks |-> IF raw.codeBlocks = None
                                  THEN <<>> ELSE raw.codeBlocks[1],
                   permissions |-> ToolPermissionsSchema(raw.permissions),
                   tags |-> IF raw.tags = None THEN <<>> ELSE raw.tags[1],
                   auditEnabled |-> IF raw.auditEnabled = None
                                    THEN TRUE ELSE raw.auditEnabled[1]]]
  ELSE [kind |-> "throw", error |-> "ZodError"]

\* ------------------------------------------------------- agents.repo.ts
\* The JSON columns of a row hold the value that was stringified.
agentToRow(agent) ==
  [name |-> agent.name,
   provider |-> agent.provider,
   system_prompt |-> agent.systemPrompt,
   graph |-> agent.graph,
   code_blocks |-> agent.codeBlocks,
   permissions |-> agent.permissions,
   tags |-> agent.tags,
   audit_enabled |-> IF agent.auditEnabled THEN 1 ELSE 0]

\* The object an agent becomes when it is written as JSON and read back (or
\* handed to the schema): every field it has is present.
AgentJson(agent) ==
  [name |-> agent.name,
   provider |-> agent.provider,
   systemPrompt |-> Some(agent.systemPrompt),
   graph |-> Some(agent.graph),
   codeBlocks |-> Some(agent.codeBlocks),
   permissions |-> Some(agent.permissions),
   tags |-> Some(agent.tags),
   auditEnabled |-> Some(agent.auditEnabled)]

\* const raw = {...} of rowToAgent
rowToRaw(row) ==
  [name |-> row.name,
   provider |-> row.provider,
   systemPrompt |-> row.system_prompt,
   graph |-> row.graph,
   codeBlocks |-> row.code_blocks,
   permissions |-> row.permissions,
   tags |-> row.tags,
   auditEnabled |-> (row.audit_enabled = 1)]

rowToAgent_NoParse(row) == [kind |-> "agent", agent |-> rowToRaw(row)]

rowToAgent(row) == AgentDefinitionSchema(AgentJson(rowToRaw(row)))

getAgent(id) ==
  IF id \notin DOMAIN agents THEN [kind |-> "null"] ELSE rowToAgent(agents[id])

\* listAgents: enabledToolCount, computed from the stored permissions column
enabledToolCount(row) ==
  Cardinality({t \in DOMAIN row.permissions :
                 row.permissions[t].enabled = Some(TRUE)})

\* createAgent writes DEFAULT_PROVIDER, DEFAULT_TOOL_PERMISSIONS and
\* auditEnabled: true without parsing.  At most max ids are handed out.
createAgent(name, max) ==
  /\ agentSeq < max
  /\ LET id == agentSeq + 1
         agent == [name |-> name, provider |-> DEFAULT_PROVIDER,
                   systemPrompt |-> DefaultSystemPrompt,
                   graph |-> createDefaultGraph,
                   codeBlocks |-> <<>>,
                   permissions |-> DEFAULT_TOOL_PERMISSIONS,
                   tags |-> <<>>,
                   auditEnabled |-> TRUE]
     IN /\ agents' = MapSet(agents, id, agentToRow(agent))
        /\ agentSeq' = id
        /\ lastCall' = ok("agents:create", <<>>)
  /\ UNCHANGED <<activeRuns, exec, nExec, events, auditLog, auditSeq, sandbox, settings, confOf, resolved, renderer>>

CreateAgent(name) == createAgent(name, MaxAgents)

\* importAgent parses {...parsed, id: uuidv4()} and inserts the result.
importAgent_IgnoresPermissions(parsed, max) ==
  /\ agentSeq < max
  /\ LET id == agentSeq + 1
         res == AgentDefinitionSchema([parsed EXCEPT !.permissions = None])
     IN /\ agentSeq' = id
        /\ IF res.kind = "throw"
           THEN /\ agents' = agents
                /\ lastCall' = err("agents:import", <<>>, res.error)
           ELSE /\ agents' = MapSet(agents, id, agentToRow(res.agent))
                /\ lastCall' = ok("agents:import", <<>>)
  /\ UNCHANGED <<activeRuns, exec, nExec, events, auditLog, auditSeq, sandbox,
                 settings, confOf, resolved, renderer>>

importAgent(parsed, max) ==
  /\ agentSeq < max
  /\ LET id == agentSeq + 1
         res == AgentDefinitionSchema(parsed)
     IN /\ agentSeq' = id
        /\ IF res.kind = "throw"
           THEN /\ agents' = agents
                /\ lastCall' = err("agents:import", <<>>, res.error)
           ELSE /\ agents' = MapSet(agents, id, agentToRow(res.agent))
                /\ lastCall' = ok("agents:import", <<>>)
  /\ UNCHANGED <<activeRuns, exec, nExec, events, auditLog, auditSeq, sandbox, settings, confOf, resolved, renderer>>

ImportAgent(parsed) == importAgent(parsed, MaxAgents)

\* updateAgent: getAgent, merge, parse the merged result (the parsed value
\* is dropped), UPDATE the row with the merged object.
UpdateAgent(id, updates) ==
  /\ LET existing == getAgent(id)
     IN IF existing.kind = "null"
        THEN /\ agents' = agents
             /\ lastCall' = err("agents:update", <<>>, "Agent not found")
        ELSE IF existing.kind = "throw"
        THEN /\ agents' = agents
             /\ lastCall' = err("agents:update", <<>>, existing.error)
        ELSE LET merged == [existing.agent EXCEPT
                              !.name = IF updates.name = None
                                       THEN @ ELSE updates.name[1],
                              !.permissions = IF updates.permissions = None
                                              THEN @
                                              ELSE updates.permissions[1],
                              !.auditEnabled = IF updates.auditEnabled = None
                                               THEN @
                                               ELSE updates.auditEnabled[1]]
             IN IF AgentDefinitionSchemaOk(AgentJson(merged))
                THEN /\ agents' = MapSet(agents, id, agentToRow(merged))
                     /\ lastCall' = ok("agents:update", <<>>)
                ELSE /\ agents' = agents
                     /\ lastCall' = err("agents:update", <<>>, "ZodError")
  /\ UNCHANGED <<agentSeq, activeRuns, exec, nExec, events, auditLog, auditSeq, sandbox, settings,
                 confOf, resolved, renderer>>

DeleteAgent(id) ==
  /\ IF id \in DOMAIN agents
     THEN /\ agents' = MapDelete(agents, id)
          /\ lastCall' = ok("agents:delete", <<>>)
     ELSE /\ agents' = agents
          /\ lastCall' = err("agents:delete", <<>>, "Agent not found")
  /\ UNCHANGED <<agentSeq, activeRuns, exec, nExec, events, auditLog, auditSeq, sandbox, settings,
                 confOf, resolved, renderer>>

\* exportAgent / ipcMain.handle(AGENTS_EXPORT): the JSON text of getAgent(id)
ExportAgent(id) ==
  /\ LET got == getAgent(id)
     IN lastCall' = IF got.kind = "null"
                    THEN err("agents:export", <<id>>, "Agent not found")
                    ELSE IF got.kind = "throw"
                    THEN err("agents:export", <<id>>, got.error)
                    ELSE ok("agents:export", <<id, AgentJson(got.agent)>>)
  /\ UNCHANGED <<agents, agentSeq, activeRuns, exec, nExec, events, auditLog, auditSeq, sandbox, settings,
                 confOf, resolved, renderer>>

\* -------------------------------------------------------- audit.repo.ts
\* appendAuditLog: one INSERT; id is INTEGER PRIMARY KEY AUTOINCREMENT, one
\* more than seq, the largest id the table ever held.  The
\* field by (the execution that wrote the row) is not a column: it only
\* attributes rows when a runId is used by several executions.
appendAuditLog_RowCount(log, seq, entry) ==
  Append(log, [id |-> Len(log) + 1,
               agentId |-> entry.agentId,
               runId |-> entry.runId,
               eventType |-> entry.eventType,
               outcome |-> entry.outcome,
               payload |-> entry.payload,
               by |-> entry.by])

appendAuditLog(log, seq, entry) ==
  Append(log, [id |-> seq + 1,
               agentId |-> entry.agentId,
               runId |-> entry.runId,
               eventType |-> entry.eventType,
               outcome |-> entry.outcome,
               payload |-> entry.payload,
               by |-> entry.by])

\* ORDER BY id DESC
RECURSIVE OrderByIdDesc(_)
OrderByIdDesc(rows) ==
  IF rows = <<>> THEN <<>>
  ELSE LET top == CHOOSE i \in 1..Len(rows) :
                    \A j \in 1..Len(rows) : rows[j].id <= rows[i].id
           rest == [j \in 1..(Len(rows) - 1) |->
                      IF j < top THEN rows[j] ELSE rows[j + 1]]
       IN <<rows[top]>> \o OrderByIdDesc(rest)

\* queryAuditLog(params): the filters on agent_id and run_id, ORDER BY id
\* DESC LIMIT ? OFFSET ?, and the COUNT(*) of the filtered rows
queryAuditLog(log, params) ==
  LET Keep(row) ==
        /\ (params.agentId = None \/ row.agentId = params.agentId[1])
        /\ (params.runId = None \/ row.runId = params.runId[1])
      rows == SelectSeq(log, Keep)
      limit == IF params.limit = None THEN DefaultQueryLimit ELSE params.limit[1]
      offset == IF params.offset = None THEN 0 ELSE params.offset[1]
  IN [entries |-> SubSeq(OrderByIdDesc(rows), offset + 1,
                         Min(offset + limit, Len(rows))),
      total |-> Len(rows)]

\* clearAuditLog(agentId?): DELETE ... WHERE agent_id = ?, or every row
clearAuditLog(log, agentId) ==
  LET Other(row) == row.agentId # agentId[1]
  IN IF agentId = None THEN <<>> ELSE SelectSeq(log, Other)

\* pruneAuditLog(retentionDays): DELETE ... WHERE ts < the cutoff.  ts is
\* the time of the INSERT, so the rows before the cutoff are the first
\* old rows in insertion order.
pruneAuditLog(log, old) == SubSeq(log, old + 1, Len(log))

\* ipcMain.handle(AUDIT_QUERY)
AuditQuery(params) ==
  /\ lastCall' = ok("audit:query", <<queryAuditLog(auditLog, params)>>)
  /\ UNCHANGED <<agents, agentSeq, activeRuns, exec, nExec, events, auditLog,
                 auditSeq, sandbox, settings, confOf, resolved, renderer>>

\* ipcMain.handle(AUDIT_CLEAR)
AuditClear(agentId) ==
  /\ auditLog' = clearAuditLog(auditLog, agentId)
  /\ lastCall' = ok("audit:clear", <<>>)
  /\ UNCHANGED <<agents, agentSeq, activeRuns, exec, nExec, events, auditSeq,
                 sandbox, settings, confOf, resolved, renderer>>

PruneAuditLog(old) ==
  /\ old \in 1..Len(auditLog)
  /\ auditLog' = pruneAuditLog(auditLog, old)
  /\ UNCHANGED <<agents, agentSeq, activeRuns, exec, nExec, events, auditSeq,
                 sandbox, settings, confOf, resolved, lastCall, renderer>>

\* ------------------------------------------ the window and its channel
\* The runner store of a window that has sent no request yet.
InitialStore ==
  [runId |-> None, isRunning |-> FALSE, activeNodeId |-> None,
   completedNodeIds |-> {}, consoleEntries |-> <<>>,
   pendingConfirmation |-> None, streamingText |-> <<>>]

\* BrowserWindow.getAllWindows() is empty: nothing is sent to any renderer.
NoWindow ==
  [open |-> FALSE, requests |-> <<>>, channel |-> <<>>, runSeq |-> 0,
   store |-> InitialStore]

\* The window of createWindow, with App subscribed to runner:event.
OneWindow == [NoWindow EXCEPT !.open = TRUE]

\* emitToRenderer(runId, event): webContents.send to every window
emitToRenderer(rend, evs) ==
  IF rend.open THEN [rend EXCEPT !.channel = @ \o evs] ELSE rend

\* The value an ipcMain.handle callback returns travels back to the window
\* that invoked it, behind the events sent during the callback.
Respond(rend, response) ==
  IF rend.open /\ rend.requests # <<>>
  THEN [rend EXCEPT !.requests = Tail(@),
                    !.channel = Append(@, [type |-> "reply",
                                           op |-> response.op,
                                           ok |-> response.ok])]
  ELSE rend

\* -------------------------------------------------------- runner.ipc.ts
Event(type, runId, data) == [type |-> type, runId |-> runId, data |-> data]

TerminalTypes == {"run-completed", "run-error"}

\* The placeholder response of runAgent.  Its two literal parts are one
\* chunk each; the agent name and the user message are kept character by
\* character.
responseText(name, userMessage) ==
  <<"[Agent ">> \o name \o <<" received your message.] Your message: ">>
    \o userMessage

\* activeRuns.delete(runId)
activeRunsDelete_Clear(runs, runId) == <<>>

activeRunsDelete(runs, runId) == MapDelete(runs, runId)

\* One uninterrupted stretch of runAgent for execution record x: from its
\* call (first = TRUE) or from a timer wake-up (first = FALSE) up to the next
\* await, or to its end with the finally block and the .catch callback of
\* the start handler.  auditOk tells whether the INSERT of appendAuditLog
\* succeeds should this stretch reach it.
runAgent(x, e, first, auditOk) ==
  LET text == responseText(x.name, x.userMessage)
      started == IF first
                 THEN <<Event("node-started", x.runId, x.userMessage)>>
                 ELSE <<>>
  IN IF first /\ x.aborted
     THEN \* throw new Error('Run aborted by user')
          [emit |-> started \o <<Event("run-error", x.runId, "Run aborted by user")>>,
           pos |-> x.pos, done |-> TRUE, audit |-> <<>>, auditFailed |-> FALSE]
     ELSE IF x.pos < Len(text) /\ ~x.aborted
     THEN \* one iteration of the streaming loop, up to its await
          [emit |-> started \o <<Event("llm-chunk", x.runId, text[x.pos + 1])>>,
           pos |-> x.pos + 1, done |-> FALSE, audit |-> <<>>,
           auditFailed |-> FALSE]
     ELSE \* the loop is over (exhausted, or break on the abort signal)
          LET finish == <<Event("node-completed", x.runId, text),
                          Event("run-completed", x.runId, text)>>
          IN IF x.auditEnabled /\ ~auditOk
             THEN [emit |-> started \o finish
                              \o <<Event("run-error", x.runId, "audit")>>,
                   pos |-> x.pos, done |-> TRUE, audit |-> <<>>,
                   auditFailed |-> TRUE]
             ELSE [emit |-> started \o finish,
                   pos |-> x.pos, done |-> TRUE,
                   audit |-> IF x.auditEnabled
                             THEN <<[agentId |-> x.agentId, runId |-> x.runId,
                                     eventType |-> "run-completed",
                                     outcome |-> "success",
                                     payload |-> None, by |-> e]>>
                             ELSE <<>>,
                   auditFailed |-> FALSE]

\* The effect of one stretch of runAgent on the state.
ApplyRun_EmitsFirst(e, x, evs, runs, log, seq, first, auditOk) ==
  LET r == runAgent(x, e, first, auditOk)
  IN /\ exec' = MapSet(exec, e,
                  [x EXCEPT !.pos = r.pos,
                            !.status = IF r.done THEN "done" ELSE "streaming",
                            !.endAuditFailed = r.auditFailed])
     /\ events' = MapSet(events, e, r.emit \o evs)
     /\ activeRuns' = IF r.done THEN activeRunsDelete(runs, x.runId) ELSE runs
     /\ auditLog' = IF r.audit = <<>> THEN log
                    ELSE appendAuditLog(log, seq, r.audit[1])
     /\ auditSeq' = IF r.audit = <<>> THEN seq ELSE seq + 1
     /\ renderer' = IF first
                    THEN Respond(emitToRenderer(renderer, evs \o r.emit),
                                 ok("runner:start", <<>>))
                    ELSE emitToRenderer(renderer, r.emit)

ApplyRun_ReadsCurrentAgent(e, x, evs, runs, log, seq, first, auditOk) ==
  LET got == getAgent(x.agentId)
      cur == IF got.kind = "agent"
             THEN [x EXCEPT !.name = got.agent.name,
                            !.auditEnabled = got.agent.auditEnabled]
             ELSE [x EXCEPT !.auditEnabled = FALSE]
      r == runAgent(cur, e, first, auditOk)
  IN /\ exec' = MapSet(exec, e,
                  [x EXCEPT !.pos = r.pos,
                            !.status = IF r.done THEN "done" ELSE "streaming",
                            !.endAuditFailed = r.auditFailed])
     /\ events' = MapSet(events, e, evs \o r.emit)
     /\ activeRuns' = IF r.done THEN activeRunsDelete(runs, x.runId) ELSE runs
     /\ auditLog' = IF r.audit = <<>> THEN log
                    ELSE appendAuditLog(log, seq, r.audit[1])
     /\ auditSeq' = IF r.audit = <<>> THEN seq ELSE seq + 1
     /\ renderer' = IF first
                    THEN Respond(emitToRenderer(renderer, evs \o r.emit),
                                 ok("runner:start", <<>>))
                    ELSE emitToRenderer(renderer, r.emit)

ApplyRun(e, x, evs, runs, log, seq, first, auditOk) ==
  LET r == runAgent(x, e, first, auditOk)
  IN /\ exec' = MapSet(exec, e,
                  [x EXCEPT !.pos = r.pos,
                            !.status = IF r.done THEN "done" ELSE "streaming",
                            !.endAuditFailed = r.auditFailed])
     /\ events' = MapSet(events, e, evs \o r.emit)
     /\ activeRuns' = IF r.done THEN activeRunsDelete(runs, x.runId) ELSE runs
     /\ auditLog' = IF r.audit = <<>> THEN log
                    ELSE appendAuditLog(log, seq, r.audit[1])
     /\ auditSeq' = IF r.audit = <<>> THEN seq ELSE seq + 1
     /\ renderer' = IF first
                    THEN Respond(emitToRenderer(renderer, evs \o r.emit),
                                 ok("runner:start", <<>>))
                    ELSE emitToRenderer(renderer, r.emit)

AuditOutcomes(auditEnabled) == IF auditEnabled THEN BOOLEAN ELSE {TRUE}

\* ipcMain.handle(RUNNER_START)
RunnerStart(agentId, userMessage, runId) ==
  LET got == getAgent(agentId)
      arg == <<agentId, runId>>
  IN IF got.kind = "null"
     THEN /\ lastCall' = err("runner:start", arg, "Agent not found")
          /\ renderer' = Respond(renderer, err("runner:start", arg,
                                               "Agent not found"))
          /\ UNCHANGED <<agents, agentSeq, activeRuns, exec, nExec, events,
                         auditLog, auditSeq, sandbox, settings, confOf,
                         resolved>>
     ELSE IF got.kind = "throw"
     THEN /\ lastCall' = err("runner:start", arg, got.error)
          /\ renderer' = Respond(renderer, err("runner:start", arg, got.error))
          /\ UNCHANGED <<agents, agentSeq, activeRuns, exec, nExec, events,
                         auditLog, auditSeq, sandbox, settings, confOf,
                         resolved>>
     ELSE
       /\ nExec < MaxExec
       /\ \E auditOk \in AuditOutcomes(got.agent.auditEnabled) :
            LET e == nExec + 1
                x == [runId |-> runId, agentId |-> agentId,
                      name |-> got.agent.name,
                      auditEnabled |-> got.agent.auditEnabled,
                      permissions |-> got.agent.permissions,
                      userMessage |-> userMessage,
                      pos |-> 0, aborted |-> FALSE, status |-> "created",
                      startAuditFailed |-> ~auditOk,
                      endAuditFailed |-> FALSE,
                      ackOk |-> auditOk, ackLen |-> 0, stopLen |-> -1]
                runs == MapSet(activeRuns, runId,
                               [owner |-> e, confirmations |-> {}])
                evs == <<Event("run-started", runId,
                               <<agentId, got.agent.name>>)>>
            IN /\ nExec' = e
               /\ IF ~auditOk
                  THEN \* appendAuditLog throws: catch, return err(String(e))
                       /\ exec' = MapSet(exec, e, [x EXCEPT !.ackLen = Len(evs)])
                       /\ events' = MapSet(events, e, evs)
                       /\ activeRuns' = runs
                       /\ auditLog' = auditLog
                       /\ auditSeq' = auditSeq
                       /\ lastCall' = err("runner:start", arg, "audit")
                       /\ renderer' = Respond(emitToRenderer(renderer, evs),
                                              err("runner:start", arg, "audit"))
                  ELSE \E endOk \in AuditOutcomes(got.agent.auditEnabled) :
                       LET log == IF got.agent.auditEnabled
                                  THEN appendAuditLog(auditLog, auditSeq,
                                         [agentId |-> agentId, runId |-> runId,
                                          eventType |-> "run-started",
                                          outcome |-> "success",
                                          payload |-> Some(Slice(userMessage,
                                                               PayloadSlice)),
                                          by |-> e])
                                  ELSE auditLog
                           seq == IF got.agent.auditEnabled
                                  THEN auditSeq + 1 ELSE auditSeq
                           r == runAgent(x, e, TRUE, endOk)
                       IN /\ ApplyRun(e, [x EXCEPT !.ackLen =
                                            Len(evs) + Len(r.emit)],
                                      evs, runs, log, seq, TRUE, endOk)
                          /\ lastCall' = ok("runner:start", arg)
       /\ UNCHANGED <<agents, agentSeq, sandbox, settings, confOf, resolved>>

\* A timer of the streaming loop fires: runAgent resumes after its await.
Tick(e) ==
  /\ e \in DOMAIN exec
  /\ exec[e].status = "streaming"
  /\ \E auditOk \in AuditOutcomes(exec[e].auditEnabled) :
       ApplyRun(e, exec[e], events[e], activeRuns, auditLog, auditSeq, FALSE,
                auditOk)
  /\ UNCHANGED <<agents, agentSeq, nExec, sandbox, settings, confOf, resolved,
                 lastCall>>

\* ipcMain.handle(RUNNER_STOP)
RunnerStop_KeepsEntry(runId) ==
  /\ IF runId \notin DOMAIN activeRuns
     THEN /\ lastCall' = err("runner:stop", <<runId>>,
                             "Run not found or already completed")
          /\ renderer' = Respond(renderer,
                                 err("runner:stop", <<runId>>,
                                     "Run not found or already completed"))
          /\ UNCHANGED <<activeRuns, exec>>
     ELSE LET e == activeRuns[runId].owner
          IN /\ exec' = [exec EXCEPT ![e].aborted = TRUE,
                                     ![e].stopLen = Len(events[e])]
             /\ activeRuns' = activeRuns
             /\ lastCall' = ok("runner:stop", <<runId>>)
             /\ renderer' = Respond(renderer, ok("runner:stop", <<runId>>))
  /\ UNCHANGED <<agents, agentSeq, nExec, events, auditLog, auditSeq, sandbox,
                 settings, confOf, resolved>>

RunnerStop(runId) ==
  /\ IF runId \notin DOMAIN activeRuns
     THEN /\ lastCall' = err("runner:stop", <<runId>>,
                             "Run not found or already completed")
          /\ renderer' = Respond(renderer,
                                 err("runner:stop", <<runId>>,
                                     "Run not found or already completed"))
          /\ UNCHANGED <<activeRuns, exec>>
     ELSE LET e == activeRuns[runId].owner
          IN /\ exec' = [exec EXCEPT ![e].aborted = TRUE,
                                     ![e].stopLen = Len(events[e])]
             /\ activeRuns' = activeRunsDelete(activeRuns, runId)
             /\ lastCall' = ok("runner:stop", <<runId>>)
             /\ renderer' = Respond(renderer, ok("runner:stop", <<runId>>))
  /\ UNCHANGED <<agents, agentSeq, nExec, events, auditLog, auditSeq, sandbox,
                 settings, confOf, resolved>>

\* ipcMain.handle(RUNNER_CONFIRM)
RunnerConfirm_KeepsEntry(runId, confirmationId, decision) ==
  LET arg == <<runId, confirmationId>>
  IN /\ IF runId \notin DOMAIN activeRuns
        THEN /\ lastCall' = err("runner:confirm", arg, "Run not found")
             /\ renderer' = Respond(renderer, err("runner:confirm", arg,
                                                  "Run not found"))
             /\ UNCHANGED <<activeRuns, resolved>>
        ELSE IF confirmationId \notin activeRuns[runId].confirmations
        THEN /\ lastCall' = err("runner:confirm", arg, "Confirmation not found")
             /\ renderer' = Respond(renderer, err("runner:confirm", arg,
                                                  "Confirmation not found"))
             /\ UNCHANGED <<activeRuns, resolved>>
        ELSE /\ resolved' = [resolved EXCEPT ![confirmationId] =
                                Append(@, decision)]
             /\ activeRuns' = activeRuns
             /\ lastCall' = ok("runner:confirm", arg)
             /\ renderer' = Respond(renderer, ok("runner:confirm", arg))
     /\ UNCHANGED <<agents, agentSeq, exec, nExec, events, auditLog, auditSeq,
                    sandbox, settings, confOf>>

RunnerConfirm_ClearsMap(runId, confirmationId, decision) ==
  LET arg == <<runId, confirmationId>>
  IN /\ IF runId \notin DOMAIN activeRuns
        THEN /\ lastCall' = err("runner:confirm", arg, "Run not found")
             /\ renderer' = Respond(renderer, err("runner:confirm", arg,
                                                  "Run not found"))
             /\ UNCHANGED <<activeRuns, resolved>>
        ELSE IF confirmationId \notin activeRuns[runId].confirmations
        THEN /\ lastCall' = err("runner:confirm", arg, "Confirmation not found")
             /\ renderer' = Respond(renderer, err("runner:confirm", arg,
                                                  "Confirmation not found"))
             /\ UNCHANGED <<activeRuns, resolved>>
        ELSE /\ resolved' = [resolved EXCEPT ![confirmationId] =
                                Append(@, decision)]
             /\ activeRuns' = [activeRuns EXCEPT ![runId].confirmations = {}]
             /\ lastCall' = ok("runner:confirm", arg)
             /\ renderer' = Respond(renderer, ok("runner:confirm", arg))
     /\ UNCHANGED <<agents, agentSeq, exec, nExec, events, auditLog, auditSeq,
                    sandbox, settings, confOf>>

RunnerConfirm(runId, confirmationId, decision) ==
  LET arg == <<runId, confirmationId>>
  IN /\ IF runId \notin DOMAIN activeRuns
        THEN /\ lastCall' = err("runner:confirm", arg, "Run not found")
             /\ renderer' = Respond(renderer, err("runner:confirm", arg,
                                                  "Run not found"))
             /\ UNCHANGED <<activeRuns, resolved>>
        ELSE IF confirmationId \notin activeRuns[runId].confirmations
        THEN /\ lastCall' = err("runner:confirm", arg, "Confirmation not found")
             /\ renderer' = Respond(renderer, err("runner:confirm", arg,
                                                  "Confirmation not found"))
             /\ UNCHANGED <<activeRuns, resolved>>
        ELSE /\ resolved' = [resolved EXCEPT ![confirmationId] =
                                Append(@, decision)]
             /\ activeRuns' = [activeRuns EXCEPT ![runId].confirmations =
                                  @ \ {confirmationId}]
             /\ lastCall' = ok("runner:confirm", arg)
             /\ renderer' = Respond(renderer, ok("runner:confirm", arg))
     /\ UNCHANGED <<agents, agentSeq, exec, nExec, events, auditLog, auditSeq,
                    sandbox, settings, confOf>>

\* Confirmation Broker, requestConfirmation(runId, description): a step of a
\* running execution stores a resolve-callback under a fresh confirmationId
\* in the confirmations map of its run.
RequestConfirmation(e) ==
  /\ e \in DOMAIN exec
  /\ exec[e].status = "streaming"
  /\ ~exec[e].aborted
  /\ exec[e].runId \in DOMAIN activeRuns
  /\ activeRuns[exec[e].runId].owner = e
  /\ Cardinality(DOMAIN confOf) < MaxConf
  /\ LET c == Cardinality(DOMAIN confOf) + 1
     IN /\ confOf' = MapSet(confOf, c, e)
        /\ resolved' = MapSet(resolved, c, <<>>)
        /\ activeRuns' = [activeRuns EXCEPT ![exec[e].runId].confirmations =
                             @ \cup {c}]
  /\ UNCHANGED <<agents, agentSeq, exec, nExec, events, auditLog, auditSeq, sandbox, settings, lastCall, renderer>>

\* The approvals a run has cached for its session.  A RunState is
\* {abortController, confirmations}: it has no place for them, and the
\* RUNNER_CONFIRM handler stores nothing but what it removes.
sessionApprovals(runs, runId) == {}

\* A tool step of a running execution whose shell command the Policy
\* Evaluator marks RequireConfirmation: unless the run has a cached
\* approval for the command, the broker registers a pending confirmation
\* under a fresh confirmationId and the requires-confirmation event is
\* pushed to the renderer.
StepRequiresConfirmation(e, command, max) ==
  /\ e \in DOMAIN exec
  /\ exec[e].status = "streaming"
  /\ exec[e].pos = StepPos
  /\ ~exec[e].aborted
  /\ exec[e].runId \in DOMAIN activeRuns
  /\ activeRuns[exec[e].runId].owner = e
  /\ Cardinality(DOMAIN confOf) < max
  /\ IF command \in sessionApprovals(activeRuns, exec[e].runId)
     THEN UNCHANGED <<confOf, resolved, activeRuns, events, renderer>>
     ELSE LET c == Cardinality(DOMAIN confOf) + 1
              ev == Event("requires-confirmation", exec[e].runId,
                          <<c, command>>)
          IN /\ confOf' = MapSet(confOf, c, e)
             /\ resolved' = MapSet(resolved, c, <<>>)
             /\ activeRuns' = [activeRuns EXCEPT
                                 ![exec[e].runId].confirmations = @ \cup {c}]
             /\ events' = [events EXCEPT ![e] = Append(@, ev)]
             /\ renderer' = emitToRenderer(renderer, <<ev>>)
  /\ UNCHANGED <<agents, agentSeq, exec, nExec, auditLog, auditSeq, sandbox,
                 settings, lastCall>>

\* ------------------------------- renderer: stores/runnerStore.ts, App
\* const runId = uuidv4() of the store's startRun: the n-th run the window
\* starts has a runId no earlier run had.
FreshRunId(n) == IF n = 1 THEN "r1" ELSE "r2"

\* The nodeId the placeholder runAgent puts on its node events.
NodeIdOf(ev) ==
  IF ev.type \in {"node-started", "llm-chunk", "node-completed"}
  THEN Some("node-llm") ELSE None

ConsoleEntry(type, content, nodeId) ==
  [type |-> type, content |-> content, nodeId |-> nodeId]

\* useRunnerStore.handleEvent(event): one set() over the event's type.  The
\* event's runId is not read.
handleEvent(st, ev) ==
  LET nodeId == NodeIdOf(ev)
      n == Len(st.consoleEntries)
  IN CASE ev.type = "node-started" ->
            [st EXCEPT !.activeNodeId = nodeId]
       [] ev.type = "node-completed" ->
            IF nodeId = None THEN st
            ELSE [st EXCEPT !.completedNodeIds = @ \cup {nodeId[1]},
                            !.activeNodeId = IF @ = nodeId THEN None ELSE @]
       [] ev.type = "llm-chunk" ->
            LET text == Append(st.streamingText, ev.data)
            IN IF /\ n > 0
                  /\ st.consoleEntries[n].type = "assistant"
                  /\ st.consoleEntries[n].nodeId = nodeId
               THEN [st EXCEPT !.streamingText = text,
                               !.consoleEntries[n].content = text]
               ELSE [st EXCEPT !.streamingText = text,
                               !.consoleEntries =
                                  Append(@, ConsoleEntry("assistant", text,
                                                         nodeId))]
       [] ev.type = "requires-confirmation" ->
            [st EXCEPT !.pendingConfirmation =
                          Some([confirmationId |-> ev.data[1],
                                runId |-> ev.runId,
                                command |-> ev.data[2]])]
       [] ev.type = "run-completed" ->
            [st EXCEPT !.isRunning = FALSE, !.activeNodeId = None,
                       !.streamingText = <<>>]
       [] ev.type = "run-error" ->
            [st EXCEPT !.isRunning = FALSE, !.activeNodeId = None,
                       !.consoleEntries =
                          Append(@, ConsoleEntry("error",
                                                 <<"Run failed", ev.data>>,
                                                 None))]
       [] OTHER -> st

\* What the store function that awaits a reply does once it is there.
\* stopRun ignores a failure and clears isRunning; startRun and
\* respondToConfirmation do nothing after their await (on a failure ipcCall
\* throws and the rejection leaves the store as it is).
afterReply(st, reply) ==
  IF reply.op = "runner:stop"
  THEN [st EXCEPT !.isRunning = FALSE, !.activeNodeId = None,
                  !.consoleEntries =
                     Append(@, ConsoleEntry("system", "Run stopped by user",
                                            None))]
  ELSE st

\* The window leaves everything but itself alone.
RendererOnly ==
  UNCHANGED <<agents, agentSeq, activeRuns, exec, nExec, events, auditLog,
              auditSeq, sandbox, settings, confOf, resolved, lastCall>>

\* AgentRunnerPage.handleSend -> useRunnerStore.startRun, up to its await
StartRun(agentId, userMessage, max) ==
  /\ renderer.open
  /\ Len(renderer.requests) < MaxInvokes
  /\ ~renderer.store.isRunning
  /\ renderer.store.pendingConfirmation = None
  /\ renderer.runSeq < max
  /\ LET runId == FreshRunId(renderer.runSeq + 1)
     IN renderer' =
          [renderer EXCEPT
             !.runSeq = @ + 1,
             !.store = [@ EXCEPT
                          !.runId = Some(runId),
                          !.isRunning = TRUE,
                          !.activeNodeId = None,
                          !.completedNodeIds = {},
                          !.streamingText = <<>>,
                          !.pendingConfirmation = None,
                          !.consoleEntries =
                             Append(@, ConsoleEntry("user", userMessage,
                                                    None))],
             !.requests = Append(@, [op |-> "runner:start",
                                     agentId |-> agentId,
                                     userMessage |-> userMessage,
                                     runId |-> runId])]
  /\ RendererOnly

\* The Stop button -> useRunnerStore.stopRun, up to its await
StopRun ==
  /\ renderer.open
  /\ Len(renderer.requests) < MaxInvokes
  /\ renderer.store.isRunning
  /\ renderer.store.runId # None
  /\ renderer' = [renderer EXCEPT
                    !.requests = Append(@, [op |-> "runner:stop",
                                            runId |-> renderer.store.runId[1]])]
  /\ RendererOnly

\* A button of the confirmation dialog -> respondToConfirmation(decision)
RespondToConfirmation(decision) ==
  /\ renderer.open
  /\ Len(renderer.requests) < MaxInvokes
  /\ renderer.store.runId # None
  /\ renderer.store.pendingConfirmation # None
  /\ LET pending == renderer.store.pendingConfirmation[1]
     IN renderer' =
          [renderer EXCEPT
             !.store = [@ EXCEPT
                          !.pendingConfirmation = None,
                          !.consoleEntries =
                             Append(@, ConsoleEntry("system",
                                        <<IF decision = "deny" THEN "denied"
                                          ELSE "allowed", pending.command>>,
                                        None))],
             !.requests = Append(@, [op |-> "runner:confirm",
                                     runId |-> renderer.store.runId[1],
                                     confirmationId |-> pending.confirmationId,
                                     decision |-> decision])]
  /\ RendererOnly

\* The window takes the next message of the main process: a runner:event for
\* the handler App subscribed, or the reply an invoke is waiting for.
Deliver ==
  /\ renderer.open
  /\ renderer.channel # <<>>
  /\ LET msg == Head(renderer.channel)
     IN renderer' =
          [renderer EXCEPT
             !.channel = Tail(@),
             !.store = IF msg.type = "reply" THEN afterReply(@, msg)
                       ELSE handleEvent(@, msg)]
  /\ RendererOnly

\* The main process takes the next invoke of the window.
HandleInvoke ==
  /\ renderer.requests # <<>>
  /\ LET req == Head(renderer.requests)
     IN CASE req.op = "runner:start" ->
               RunnerStart(req.agentId, req.userMessage, req.runId)
          [] req.op = "runner:stop" -> RunnerStop(req.runId)
          [] req.op = "runner:confirm" ->
               RunnerConfirm(req.runId, req.confirmationId, req.decision)

\* -------------------------------------------------- main/index.ts
\* runCodeBlock(code, input, blockCtx, limits).  The user's code is kept as
\* what the harness makes of it: whether it parses, one top-level statement
\* (which runs before the harness looks for run), whether it declares run
\* as a function or an async function, and what the body of run does, inside
\* a try/catch that returns a value (catches) or not.
Capabilities ==
  {"http.get", "http.post", "fs.readFile", "fs.writeFile", "fs.listDir",
   "shell.exec"}

ThrownValues == {"Error", "string", "empty", "undefined", "object"}

Programs ==
  {c \in [syntaxOk : BOOLEAN,
          top : {"none", "log", "call", "throw", "loop"},
          entry : {"none", "function", "async function"},
          body : {"return", "log", "call", "throw", "loop"},
          catches : BOOLEAN,
          thrown : ThrownValues,
          cap : Capabilities] :
     /\ ("throw" \notin {c.top, c.body}) => c.thrown = "Error"
     /\ ("call" \notin {c.top, c.body}) => c.cap = "http.get"
     /\ c.catches => c.body \in {"call", "throw"}
     /\ c.entry = "none" => c.body = "return"
     /\ ~c.syntaxOk => (c.top = "none" /\ c.entry = "function"
                        /\ c.body = "return")}

\* the errors the harness throws inside the VM
CapabilityError(cap) ==
  [type |-> "Error",
   message |-> IF cap \in {"http.get", "http.post"}
               THEN "HTTP requires network permission and Phase 5 implementation"
               ELSE IF cap = "shell.exec"
               THEN "Shell requires permission"
               ELSE "Filesystem requires permission"]

EntryMissingError ==
  [type |-> "Error",
   message |-> "Code block must define a function named \"run\""]

\* a value thrown by the user's code; the Error, the string and the object
\* are not empty
UserThrow(v) ==
  [type |-> v, message |-> IF v \in {"empty", "undefined"} THEN "" ELSE "boom"]

\* the exception QuickJS raises when the interrupt handler returns true;
\* a catch clause does not see it
Interrupted == [type |-> "Error", message |-> "interrupted"]

\* vm.dump of a Promise, which is what an async function returns
DumpedPromise == "promise"

\* The completion of the body of run: a returned value, a thrown exception
\* or the interrupt of a loop that does not end.
runBody(c) ==
  IF c.body = "loop" THEN [kind |-> "interrupt"]
  ELSE IF c.body \in {"return", "log"} THEN [kind |-> "return", value |-> "value"]
  ELSE IF c.catches THEN [kind |-> "return", value |-> "recovered"]
  ELSE [kind |-> "throw",
        exc |-> IF c.body = "call" THEN CapabilityError(c.cap)
                ELSE UserThrow(c.thrown)]

\* vm.evalCode(harness).  log counts the calls of blockCtx.log, ran the
\* statements of the user's code that were started, interrupted tells whether
\* the interrupt handler found the deadline passed.  rejects: an interrupt
\* inside an async function rejects its promise rather than unwinding the
\* whole evaluation.
evalCode(c, rejects) ==
  LET R(error, value, log, ran, interrupted) ==
        [error |-> error, value |-> value, log |-> log, ran |-> ran,
         interrupted |-> interrupted]
      n == IF c.top = "none" THEN 0 ELSE 1
      l == IF c.top = "log" THEN 1 ELSE 0
      b == runBody(c)
      bl == IF c.body = "log" THEN l + 1 ELSE l
  IN IF ~c.syntaxOk
     THEN R(Some([type |-> "Error", message |-> "SyntaxError"]), None, 0, 0, FALSE)
     ELSE IF c.top = "loop" THEN R(Some(Interrupted), None, 0, 1, TRUE)
     ELSE IF c.top = "throw" THEN R(Some(UserThrow(c.thrown)), None, 0, 1, FALSE)
     ELSE IF c.top = "call" THEN R(Some(CapabilityError(c.cap)), None, 0, 1, FALSE)
     ELSE IF c.entry = "none" THEN R(Some(EntryMissingError), None, l, n, FALSE)
     ELSE IF c.entry = "function"
     THEN IF b.kind = "interrupt" THEN R(Some(Interrupted), None, bl, n + 1, TRUE)
          ELSE IF b.kind = "throw" THEN R(Some(b.exc), None, bl, n + 1, FALSE)
          ELSE R(None, Some(b.value), bl, n + 1, FALSE)
     ELSE IF b.kind = "interrupt" /\ ~rejects
          THEN R(Some(Interrupted), None, bl, n + 1, TRUE)
          ELSE R(None, Some(DumpedPromise), bl, n + 1, b.kind = "interrupt")

\* const err = vm.dump(evalResult.error);
\* runError = typeof err === 'string' ? err : JSON.stringify(err)
\* A text is a string as it stands (json = FALSE) or the JSON text of a value
\* with that message; JSON.stringify(undefined) is undefined.
runErrorOf(exc) ==
  IF exc.type \in {"string", "empty"}
  THEN Some([json |-> FALSE, text |-> exc.message])
  ELSE IF exc.type = "undefined" THEN None
  ELSE Some([json |-> TRUE, text |-> exc.message])

\* if (runError): undefined and the empty string are falsy
Truthy(runError) ==
  /\ runError # None
  /\ (runError[1].json \/ runError[1].text # "")

\* The three returns that follow the evaluation.
SandboxResult_ErrorFirst(timedOut, runError, result) ==
  IF Truthy(runError)
  THEN [success |-> FALSE, result |-> None, error |-> runError,
        timedOut |-> FALSE]
  ELSE IF timedOut
  THEN [success |-> FALSE, result |-> None,
        error |-> Some([json |-> FALSE, text |-> "Execution timed out"]),
        timedOut |-> TRUE]
  ELSE [success |-> TRUE, result |-> result, error |-> None,
        timedOut |-> FALSE]

SandboxResult(timedOut, runError, result) ==
  IF timedOut
  THEN [success |-> FALSE, result |-> None,
        error |-> Some([json |-> FALSE, text |-> "Execution timed out"]),
        timedOut |-> TRUE]
  ELSE IF Truthy(runError)
  THEN [success |-> FALSE, result |-> None, error |-> runError,
        timedOut |-> FALSE]
  ELSE [success |-> TRUE, result |-> result, error |-> None,
        timedOut |-> FALSE]

\* The SandboxResult res, with what the call did on the host: log calls of
\* blockCtx.log, effects the other capabilities performed (none: the methods
\* of __ctx and the __ctx_* stubs throw inside the VM), ran statements of the
\* user's code started, interrupted whether the interrupt handler fired, vm
\* the state of the QuickJS context when the call returns.
runCodeBlock(c, input, limits, engineOk, rejects) ==
  LET Out(res, log, ran, interrupted, vm) ==
        [res |-> res, log |-> log, effects |-> {}, ran |-> ran,
         interrupted |-> interrupted, vm |-> vm]
      Caught(text) ==
        [success |-> FALSE, result |-> None,
         error |-> Some([json |-> FALSE, text |-> text]), timedOut |-> FALSE]
      ev == evalCode(c, rejects)
      runError == IF ev.error = None THEN None ELSE runErrorOf(ev.error[1])
  IN IF ~engineOk
     THEN \* import, getQuickJS or newContext throws: the outer catch
          Out(Caught("Error: engine"), 0, 0, FALSE, "none")
     ELSE IF input = "circular"
     THEN \* JSON.stringify(input) throws: finally, then the outer catch
          Out(Caught("TypeError: circular"), 0, 0, FALSE, "disposed")
     ELSE Out(SandboxResult(ev.interrupted, runError, ev.value),
              ev.log, ev.ran, ev.interrupted, "disposed")

SandboxCalls ==
  {k \in [code : Programs, input : {"json", "circular"},
          limits : [networkAccess : BOOLEAN], engineOk : BOOLEAN,
          rejects : BOOLEAN] :
     /\ (~k.engineOk \/ k.input = "circular") =>
          (k.code.top = "none" /\ k.code.body = "return" /\ k.code.syntaxOk)
     /\ k.rejects =>
          (k.code.entry = "async function" /\ k.code.body = "loop")}

\* runCodeBlock is called and returns
RunCodeBlock ==
  /\ ~sandbox.returned
  /\ sandbox' = [sandbox EXCEPT
       !.returned = TRUE,
       !.out = Some(runCodeBlock(sandbox.call.code, sandbox.call.input,
                                 sandbox.call.limits, sandbox.call.engineOk,
                                 sandbox.call.rejects))]
  /\ UNCHANGED <<agents, agentSeq, activeRuns, exec, nExec, events, auditLog,
                 auditSeq, settings, confOf, resolved, lastCall, renderer>>

\* ------------------------------------- settings.repo.ts, settings.ipc.ts
\* Rows of table settings under the prefix 'secret:'.  A stored string is
\* 'PLAIN:' + value (enc = "plain") or the base64 text of
\* safeStorage.encryptString(value) (enc = "safeStorage").
Letters == {"k", "s"}
Digits == {"1"}
SecretKeys == {<<"k">>, <<"s", "1">>, <<"1">>, <<>>}
SecretValues == {"", "v1", "v2"}

\* /^[a-zA-Z][a-zA-Z0-9_-]*$/.test(key)
ValidSecretKey(key) ==
  /\ Len(key) >= 1
  /\ key[1] \in Letters
  /\ \A i \in 1..Len(key) : key[i] \in Letters \cup Digits \cup {"_", "-"}

\* setSecret(key, value); available is safeStorage.isEncryptionAvailable()
setSecret(store, key, value, available) ==
  MapSet(store, key, [enc |-> IF available THEN "safeStorage" ELSE "plain",
                      value |-> value])

\* getSecret(key): null (None) or the secret
getSecret_EmptyIsNull(store, key, available) ==
  IF key \notin DOMAIN store \/ store[key].value = "" THEN None
  ELSE IF store[key].enc = "plain" THEN Some(store[key].value)
  ELSE IF ~available THEN None
  ELSE Some(store[key].value)

getSecret(store, key, available) ==
  IF key \notin DOMAIN store THEN None
  ELSE IF store[key].enc = "plain" THEN Some(store[key].value)
  ELSE IF ~available THEN None
  ELSE Some(store[key].value)

\* the responses of the four handlers, as functions of the table
getSecretResponse(store, key, available) ==
  ok("settings:getSecret", <<key, getSecret(store, key, available) # None>>)

setSecretResponse(store, key, value, available) ==
  IF ValidSecretKey(key)
  THEN ok("settings:setSecret", <<key>>)
  ELSE err("settings:setSecret", <<key>>, "Invalid secret key name")

deleteSecretResponse(store, key) == ok("settings:deleteSecret", <<key>>)

listSecretKeysResponse(store) == ok("settings:listSecretKeys", DOMAIN store)

\* ipcMain.handle(SETTINGS_GET_SECRET)
SettingsGetSecret(key, available) ==
  /\ lastCall' = getSecretResponse(settings, key, available)
  /\ UNCHANGED <<agents, agentSeq, activeRuns, exec, nExec, events, auditLog,
                 auditSeq, sandbox, settings, confOf, resolved, renderer>>

\* ipcMain.handle(SETTINGS_SET_SECRET)
SettingsSetSecret(key, value, available) ==
  /\ settings' = IF ValidSecretKey(key)
                 THEN setSecret(settings, key, value, available)
                 ELSE settings
  /\ lastCall' = setSecretResponse(settings, key, value, available)
  /\ UNCHANGED <<agents, agentSeq, activeRuns, exec, nExec, events, auditLog,
                 auditSeq, sandbox, confOf, resolved, renderer>>

\* ipcMain.handle(SETTINGS_DELETE_SECRET)
SettingsDeleteSecret(key) ==
  /\ settings' = MapDelete(settings, key)
  /\ lastCall' = deleteSecretResponse(settings, key)
  /\ UNCHANGED <<agents, agentSeq, activeRuns, exec, nExec, events, auditLog,
                 auditSeq, sandbox, confOf, resolved, renderer>>

\* ipcMain.handle(SETTINGS_LIST_SECRET_KEYS)
SettingsListSecretKeys ==
  /\ lastCall' = listSecretKeysResponse(settings)
  /\ UNCHANGED <<agents, agentSeq, activeRuns, exec, nExec, events, auditLog,
                 auditSeq, sandbox, settings, confOf, resolved, renderer>>

\* ------------------------------------------------------- specifications
ImportInputs ==
  [name : Names, provider : [apiKeyRef : ApiKeyRefs],
   systemPrompt : {None}, graph : {Some(createDefaultGraph)},
   codeBlocks : {None}, permissions : {None}, tags : {None},
   auditEnabled : {None, Some(TRUE), Some(FALSE)}]

UpdateInputs ==
  [name : {None} \cup {Some(n) : n \in Names},
   permissions : {None},
   auditEnabled : {None, Some(TRUE), Some(FALSE)}]

Init ==
  /\ agents = <<>>
  /\ agentSeq = 0
  /\ activeRuns = <<>>
  /\ exec = <<>>
  /\ nExec = 0
  /\ events = <<>>
  /\ auditLog = <<>>
  /\ auditSeq = 0
  /\ sandbox = <<>>
  /\ settings = <<>>
  /\ confOf = <<>>
  /\ resolved = <<>>
  /\ lastCall = [op |-> "none", arg |-> <<>>, ok |-> TRUE, error |-> "none"]
  /\ renderer = NoWindow

\* The program as it is under src/: nothing registers a confirmation.
Next ==
  \/ \E n \in Names : CreateAgent(n)
  \/ \E p \in ImportInputs : ImportAgent(p)
  \/ \E a \in AgentIds, u \in UpdateInputs : UpdateAgent(a, u)
  \/ \E a \in AgentIds : DeleteAgent(a)
  \/ \E a \in AgentIds, m \in Messages, r \in RunIds : RunnerStart(a, m, r)
  \/ \E e \in ExecIds : Tick(e)
  \/ \E r \in RunIds : RunnerStop(r)
  \/ \E r \in RunIds, c \in ConfIds, d \in Decisions : RunnerConfirm(r, c, d)

Spec == Init /\ [][Next]_vars

\* The run coordinator together with the Confirmation Broker's registration.
NextBroker ==
  \/ \E p \in ImportInputs : ImportAgent(p)
  \/ \E a \in AgentIds, m \in Messages, r \in RunIds : RunnerStart(a, m, r)
  \/ \E e \in ExecIds : Tick(e)
  \/ \E r \in RunIds : RunnerStop(r)
  \/ \E r \in RunIds, c \in ConfIds, d \in Decisions : RunnerConfirm(r, c, d)
  \/ \E e \in ExecIds : RequestConfirmation(e)

SpecBroker == Init /\ [][NextBroker]_vars

\* The agent store alone (agents.repo.ts behind the agents:* handlers), with
\* import documents and updates that carry permissions, a graph, code
\* blocks, tags and a system prompt.
PermissionInputs ==
  {None,
   Some(<<>>),
   Some([t \in {"filesystem"} |-> [enabled |-> None]]),
   Some([t \in {"http"} |-> [enabled |-> Some(TRUE)]]),
   Some([t \in Tools |-> [enabled |-> Some(t = "shell")]])}

StoreImportInputs ==
  [name : Names, provider : [apiKeyRef : ApiKeyRefs],
   systemPrompt : {None}, graph : {None, Some([nodes |-> None, edges |-> None])},
   codeBlocks : {None}, permissions : {None}, tags : {None},
   auditEnabled : {None}]
  \cup
  [name : {<<"a">>}, provider : [apiKeyRef : {<<"k">>}],
   systemPrompt : {None}, graph : {Some(createDefaultGraph)},
   codeBlocks : {None}, permissions : PermissionInputs, tags : {None},
   auditEnabled : {None}]
  \cup
  [name : {<<"a">>}, provider : [apiKeyRef : {<<"k">>}],
   systemPrompt : {Some("p")},
   graph : {Some([nodes |-> Some(<<"n1">>), edges |-> None])},
   codeBlocks : {Some(<<"cb">>)}, permissions : {None},
   tags : {Some(<<"t">>)}, auditEnabled : {Some(FALSE)}]

StoreUpdateInputs ==
  [name : {None},
   permissions : {None, Some(<<>>),
                  Some([t \in {"codeExec"} |-> [enabled |-> Some(TRUE)]])},
   auditEnabled : {None, Some(FALSE)}]

\* The JSON text the last agents:export returned, which the renderer may hand
\* to agents:import.
ExportedJson ==
  IF lastCall.op = "agents:export" /\ lastCall.ok
  THEN {lastCall.arg[2]} ELSE {}

NextStore ==
  \/ \E n \in Names : createAgent(n, MaxStored)
  \/ \E p \in StoreImportInputs \cup ExportedJson : importAgent(p, MaxStored)
  \/ \E a \in StoreIds, u \in StoreUpdateInputs : UpdateAgent(a, u)
  \/ \E a \in StoreIds : DeleteAgent(a)
  \/ \E a \in StoreIds : ExportAgent(a)

SpecStore == Init /\ [][NextStore]_vars

\* One call of runCodeBlock, for every program, input and engine behaviour.
InitSandbox ==
  /\ agents = <<>>
  /\ agentSeq = 0
  /\ activeRuns = <<>>
  /\ exec = <<>>
  /\ nExec = 0
  /\ events = <<>>
  /\ auditLog = <<>>
  /\ auditSeq = 0
  /\ sandbox \in [call : SandboxCalls, returned : {FALSE}, out : {None}]
  /\ settings = <<>>
  /\ confOf = <<>>
  /\ resolved = <<>>
  /\ lastCall = [op |-> "none", arg |-> <<>>, ok |-> TRUE, error |-> "none"]
  /\ renderer = NoWindow

NextSandbox == RunCodeBlock

SpecSandbox == InitSandbox /\ [][NextSandbox]_vars

\* The await of runCodeBlock is resumed: the call is not left pending.
SpecSandboxFair == SpecSandbox /\ WF_vars(RunCodeBlock)

\* The secret handlers of the settings store.
NextSettings ==
  \/ \E k \in SecretKeys, b \in BOOLEAN : SettingsGetSecret(k, b)
  \/ \E k \in SecretKeys, v \in SecretValues, b \in BOOLEAN :
       SettingsSetSecret(k, v, b)
  \/ \E k \in SecretKeys : SettingsDeleteSecret(k)
  \/ SettingsListSecretKeys

SpecSettings == Init /\ [][NextSettings]_vars

\* The audit store: runs that write entries, and the query, clear and prune
\* operations of audit.repo.ts.
QueryInputs ==
  [agentId : {None}, runId : {None, Some("r1")}, limit : {None, Some(1)},
   offset : {None}]
  \cup
  [agentId : {Some(1)}, runId : {None}, limit : {None}, offset : {Some(1)}]

NextAudit ==
  \/ \E p \in ImportInputs : ImportAgent(p)
  \/ \E a \in AgentIds, m \in Messages, r \in RunIds : RunnerStart(a, m, r)
  \/ \E e \in ExecIds : Tick(e)
  \/ \E q \in QueryInputs : AuditQuery(q)
  \/ \E a \in {None} \cup {Some(i) : i \in AgentIds} : AuditClear(a)
  \/ \E k \in 1..(2 * MaxExec) : PruneAuditLog(k)

SpecAudit == Init /\ [][NextAudit]_vars

\* Runs of an agent that is edited or deleted while they stream.
SnapshotUpdateInputs ==
  [name : {None, Some(<<"b">>)},
   permissions : {None, Some([t \in {"codeExec"} |-> [enabled |-> Some(TRUE)]])},
   auditEnabled : {None, Some(TRUE), Some(FALSE)}]

NextSnapshot ==
  \/ \E p \in ImportInputs : ImportAgent(p)
  \/ \E a \in AgentIds, u \in SnapshotUpdateInputs : UpdateAgent(a, u)
  \/ \E a \in AgentIds : DeleteAgent(a)
  \/ \E a \in AgentIds, m \in Messages, r \in RunIds : RunnerStart(a, m, r)
  \/ \E e \in ExecIds : Tick(e)

SpecSnapshot == Init /\ [][NextSnapshot]_vars

\* Runs whose steps ask for approval of shell commands, and the decisions
\* sent back with runner:confirm.
ConfirmImportInputs ==
  [name : {<<"a">>}, provider : [apiKeyRef : {<<"k">>}],
   systemPrompt : {None}, graph : {Some(createDefaultGraph)},
   codeBlocks : {None}, permissions : {None}, tags : {None},
   auditEnabled : {Some(FALSE)}]

NextConfirm ==
  \/ \E p \in ConfirmImportInputs : ImportAgent(p)
  \/ \E a \in AgentIds, m \in Messages :
       RunnerStart(a, m, FreshRunId(nExec + 1))
  \/ \E e \in ExecIds : Tick(e)
  \/ \E r \in RunIds, c \in PendingIds, d \in {"allow-once", "deny"} : RunnerConfirm(r, c, d)
  \/ \E e \in ExecIds : StepRequiresConfirmation(e, "git status", MaxPending)

SpecConfirm == Init /\ [][NextConfirm]_vars

\* The same with two commands, for the approvals of a session.
NextSession ==
  \/ \E p \in ConfirmImportInputs : ImportAgent(p)
  \/ \E a \in AgentIds, m \in Messages :
       RunnerStart(a, m, FreshRunId(nExec + 1))
  \/ \E e \in ExecIds : Tick(e)
  \/ \E r \in RunIds, c \in PendingIds, d \in Decisions : RunnerConfirm(r, c, d)
  \/ \E e \in ExecIds, k \in Commands :
       StepRequiresConfirmation(e, k, MaxPrompts)

SpecSession == Init /\ [][NextSession]_vars

\* The window and the main process together: the store sends the invokes,
\* the main process answers them and pushes the events of the runs.
InitRenderer ==
  /\ agents = <<>>
  /\ agentSeq = 0
  /\ activeRuns = <<>>
  /\ exec = <<>>
  /\ nExec = 0
  /\ events = <<>>
  /\ auditLog = <<>>
  /\ auditSeq = 0
  /\ sandbox = <<>>
  /\ settings = <<>>
  /\ confOf = <<>>
  /\ resolved = <<>>
  /\ lastCall = [op |-> "none", arg |-> <<>>, ok |-> TRUE, error |-> "none"]
  /\ renderer = OneWindow

\* The main process runs ahead of the window by MaxInFlight messages at most.
WindowKeepsUp == Len(renderer.channel) < MaxInFlight

NextRenderer ==
  \/ \E p \in ConfirmImportInputs : ImportAgent(p)
  \/ \E a \in AgentIds, m \in Messages : StartRun(a, m, MaxExec)
  \/ StopRun
  \/ Deliver
  \/ WindowKeepsUp /\ HandleInvoke
  \/ \E e \in ExecIds : WindowKeepsUp /\ Tick(e)

SpecRenderer == InitRenderer /\ [][NextRenderer]_vars

\* The same with steps that ask for approval and the window's dialog.
NextDialog ==
  \/ \E p \in ConfirmImportInputs : ImportAgent(p)
  \/ \E a \in AgentIds, m \in Messages : StartRun(a, m, MaxDialogRuns)
  \/ StopRun
  \/ \E d \in {"allow-once", "deny"} : RespondToConfirmation(d)
  \/ Deliver
  \/ WindowKeepsUp /\ HandleInvoke
  \/ \E e \in ExecIds : WindowKeepsUp /\ Tick(e)
  \/ \E e \in ExecIds :
       WindowKeepsUp /\ StepRequiresConfirmation(e, "git status", MaxPrompts)

SpecDialog == InitRenderer /\ [][NextDialog]_vars

\* ------------------------------------------------------------- claims
TerminalIdx(e) ==
  {i \in 1..Len(events[e]) : events[e][i].type \in TerminalTypes}

OwnsEntry(e) ==
  /\ exec[e].runId \in DOMAIN activeRuns
  /\ activeRuns[exec[e].runId].owner = e

Stopped(e) == exec[e].stopLen >= 0

RunOver(e) == Stopped(e) \/ exec[e].status = "done"

\* C1: every run emits at most one terminal event (run-completed or
\* run-error); a terminal event is the last event of its run, and from then
\* on the run has no entry in activeRuns.
C1_AtMostOneTerminalEvent ==
  \A e \in DOMAIN exec :
    /\ Cardinality(TerminalIdx(e)) <= 1
    /\ \A i \in TerminalIdx(e) : i = Len(events[e]) /\ ~OwnsEntry(e)

\* C2: a run that runner.stop stopped while it was streaming ends with
\* exactly one terminal event, and that event is not run-completed.
C2_StoppedRunEndsCancelled ==
  \A e \in DOMAIN exec :
    (Stopped(e) /\ exec[e].status = "done") =>
      /\ Cardinality(TerminalIdx(e)) = 1
      /\ \A i \in TerminalIdx(e) : events[e][i].type # "run-completed"

\* C3: after runner.stop returned {stopped: true} the run emits no further
\* llm-chunk and no node-completed event.
C3_NoProgressEventAfterStop ==
  \A e \in DOMAIN exec :
    Stopped(e) =>
      \A i \in (exec[e].stopLen + 1)..Len(events[e]) :
        events[e][i].type \notin {"llm-chunk", "node-completed"}

\* C4: when a run is stopped, every confirmation still pending in its
\* confirmations map has its resolve-callback invoked (with a denial).
C4_StopRejectsPendingConfirmations ==
  \A c \in DOMAIN confOf :
    Stopped(confOf[c]) => resolved[c] # <<>>

\* C5: once a run has been stopped or has finished, runner.confirm for any
\* confirmation of that run returns a failure and invokes no resolver.
C5_ConfirmAfterRunOverFails ==
  [][\A r \in RunIds, c \in DOMAIN confOf, d \in Decisions :
       (/\ RunOver(confOf[c])
        /\ exec[confOf[c]].runId = r
        /\ RunnerConfirm(r, c, d))
       => (~lastCall'.ok /\ resolved' = resolved)]_vars

C5_Witness ==
  /\ lastCall.op = "runner:confirm"
  /\ ~lastCall.ok
  /\ \E c \in DOMAIN confOf :
       /\ lastCall.arg = <<exec[confOf[c]].runId, c>>
       /\ RunOver(confOf[c])
       /\ resolved[c] = <<>>

\* C6: for an existing, valid agent runner.start emits run-started as the
\* first event of the run and returns {runId, started: true} before the
\* run's terminal event is emitted.
C6_StartAcknowledgedBeforeTerminal ==
  \A e \in DOMAIN exec :
    /\ events[e][1].type = "run-started"
    /\ exec[e].ackOk
    /\ \A i \in TerminalIdx(e) : i > exec[e].ackLen

\* C7: when appendAuditLog throws (for run-started or for run-completed) the
\* start is still acknowledged, the run still executes, emits exactly one
\* terminal event and its RunState is removed.
C7_AuditFailureDoesNotAbortRun ==
  \A e \in DOMAIN exec :
    (exec[e].startAuditFailed \/ exec[e].endAuditFailed) =>
      /\ exec[e].ackOk
      /\ exec[e].status # "created"
      /\ exec[e].status = "done" =>
           (Cardinality(TerminalIdx(e)) = 1 /\ ~OwnsEntry(e))

\* C8: with auditEnabled every run-started and every terminal event of a run
\* has an audit entry with the same runId and eventType; without it the run
\* appends no audit entry.
C8_AuditMirrorsStartAndTerminalEvents ==
  \A e \in DOMAIN exec :
    IF exec[e].auditEnabled
    THEN \A i \in 1..Len(events[e]) :
           events[e][i].type \in {"run-started"} \cup TerminalTypes =>
             \E k \in 1..Len(auditLog) :
               /\ auditLog[k].by = e
               /\ auditLog[k].runId = events[e][i].runId
               /\ auditLog[k].eventType = events[e][i].type
    ELSE \A k \in 1..Len(auditLog) : auditLog[k].by # e

\* C9: a runner.start for an unknown agent id, or for a stored agent that
\* does not pass AgentDefinitionSchema, returns a failure response, creates
\* no RunState, emits no event and writes no audit entry.
Startable(a) ==
  /\ a \in DOMAIN agents
  /\ AgentDefinitionSchemaOk(AgentJson(rowToRaw(agents[a])))

C9_FailedStartHasNoEffect ==
  [][\A a \in AgentIds, m \in Messages, r \in RunIds :
       (~Startable(a) /\ RunnerStart(a, m, r)) =>
         /\ lastCall'.op = "runner:start"
         /\ ~lastCall'.ok
         /\ UNCHANGED <<activeRuns, exec, nExec, events, auditLog>>]_vars

C9_Witness ==
  /\ lastCall.op = "runner:start"
  /\ ~lastCall.ok
  /\ lastCall.error = "ZodError"
  /\ lastCall.arg[1] \in DOMAIN agents
  /\ ~Startable(lastCall.arg[1])
  /\ activeRuns = <<>>
  /\ nExec = 0

\* C10: runs with distinct runIds are independent.  The events of a run are
\* a function of that run's own record alone, and a stop, a confirm or a
\* step of run A leaves the RunState, the record and the events of every
\* active run B with another runId unchanged.
ExpectedEvents(x) ==
  LET text == responseText(x.name, x.userMessage)
  IN <<Event("run-started", x.runId, <<x.agentId, x.name>>)>>
     \o (IF x.status = "created" THEN <<>>
         ELSE <<Event("node-started", x.runId, x.userMessage)>>
              \o [i \in 1..x.pos |-> Event("llm-chunk", x.runId, text[i])])
     \o (IF x.status = "done"
         THEN <<Event("node-completed", x.runId, text),
                Event("run-completed", x.runId, text)>>
         ELSE <<>>)
     \o (IF x.endAuditFailed
         THEN <<Event("run-error", x.runId, "audit")>> ELSE <<>>)

OnRun(r) ==
  \/ RunnerStop(r)
  \/ \E c \in ConfIds, d \in Decisions : RunnerConfirm(r, c, d)
  \/ \E e \in DOMAIN exec : exec[e].runId = r /\ Tick(e)

C10_RunsAreIndependent ==
  /\ [](\A e \in DOMAIN exec : events[e] = ExpectedEvents(exec[e]))
  /\ [][\A rA \in RunIds, rB \in DOMAIN activeRuns :
          (rA # rB /\ OnRun(rA)) =>
            /\ rB \in DOMAIN activeRuns'
            /\ activeRuns'[rB] = activeRuns[rB]
            /\ exec'[activeRuns[rB].owner] = exec[activeRuns[rB].owner]
            /\ events'[activeRuns[rB].owner] = events[activeRuns[rB].owner]]_vars

C10_Witness ==
  /\ DOMAIN exec = {1, 2}
  /\ exec[1].runId # exec[2].runId
  /\ exec[2].status = "done"
  /\ Stopped(2)
  /\ exec[1].status = "streaming"
  /\ ~Stopped(1)
  /\ OwnsEntry(1)
  /\ activeRuns[exec[1].runId].confirmations # {}

\* C11: within one run the events are emitted in step order: run-started
\* before node-started, node-started before every llm-chunk, every llm-chunk
\* before node-completed, node-completed before run-completed; the llm-chunk
\* events carry the response in its original order, and all of it when the
\* run was not stopped.
TypeIdx(e, t) == {i \in 1..Len(events[e]) : events[e][i].type = t}

Precedes(e, t1, t2) == \A i \in TypeIdx(e, t1), j \in TypeIdx(e, t2) : i < j

IsChunk(ev) == ev.type = "llm-chunk"

Chunks(e) ==
  LET cs == SelectSeq(events[e], IsChunk)
  IN [i \in 1..Len(cs) |-> cs[i].data]

C11_EventsInStepOrder ==
  \A e \in DOMAIN exec :
    LET text == responseText(exec[e].name, exec[e].userMessage)
    IN /\ Precedes(e, "run-started", "node-started")
       /\ Precedes(e, "node-started", "llm-chunk")
       /\ Precedes(e, "llm-chunk", "node-completed")
       /\ Precedes(e, "node-completed", "run-completed")
       /\ Len(Chunks(e)) <= Len(text)
       /\ Chunks(e) = SubSeq(text, 1, Len(Chunks(e)))
       /\ (TypeIdx(e, "node-completed") # {} /\ ~Stopped(e)) => Chunks(e) = text

C11_Witness ==
  \E e \in DOMAIN exec :
    /\ ~Stopped(e)
    /\ exec[e].status = "done"
    /\ TypeIdx(e, "run-completed") # {}
    /\ Len(Chunks(e)) = 4
    /\ Chunks(e) = responseText(exec[e].name, exec[e].userMessage)

\* C12: every sub-policy defaults to enabled = false.  A sub-policy of a
\* stored agent becomes enabled only by an import or an update whose input
\* carries enabled = true for that very sub-policy; so an agent made by
\* createAgent, or imported from JSON without permissions, without the
\* sub-policy or without its enabled flag, has all four disabled.  The
\* enabledToolCount of listAgents is the number of enabled sub-policies.
Grants(permissions, t) ==
  /\ permissions # None
  /\ t \in DOMAIN permissions[1]
  /\ permissions[1][t].enabled = Some(TRUE)

EnabledIn(table, a, t) ==
  /\ a \in DOMAIN table
  /\ ToolPermissionsSchema(Some(table[a].permissions))[t].enabled = Some(TRUE)

C12_SubPoliciesDefaultToDisabled ==
  /\ [](\A a \in DOMAIN agents :
          enabledToolCount(agents[a]) =
            Cardinality({t \in Tools : EnabledIn(agents, a, t)}))
  /\ [][\A a \in StoreIds, t \in Tools :
          (~EnabledIn(agents, a, t) /\ EnabledIn(agents', a, t)) =>
            \/ \E p \in StoreImportInputs \cup ExportedJson :
                 Grants(p.permissions, t) /\ importAgent(p, MaxStored)
            \/ \E u \in StoreUpdateInputs :
                 Grants(u.permissions, t) /\ UpdateAgent(a, u)]_vars

C12_Witness ==
  /\ lastCall.op = "agents:import"
  /\ lastCall.ok
  /\ DOMAIN agents = {1, 2}
  /\ enabledToolCount(agents[1]) = 1
  /\ enabledToolCount(agents[2]) = 0
  /\ \A t \in Tools : agents[2].permissions[t].enabled = Some(FALSE)

\* Claims about runCodeBlock speak of a call that returned.
Returned == sandbox.returned

Evaluated ==
  /\ sandbox.call.engineOk
  /\ sandbox.call.input = "json"
  /\ sandbox.call.code.syntaxOk

\* the body of run is reached
BodyReached ==
  /\ Evaluated
  /\ sandbox.call.code.top \in {"none", "log"}
  /\ sandbox.call.code.entry # "none"

\* C13: every call of a capability other than log performs no effect on the
\* host and is an error the code can catch: caught, with a value returned,
\* runCodeBlock returns {success: true, result}; not caught, it returns
\* {success: false, error}.  For every CodeExecPolicy.
C13_CapabilityCallIsCatchableError ==
  LET c == sandbox.call.code
      o == sandbox.out[1]
      called == \/ Evaluated /\ c.top = "call"
                \/ BodyReached /\ c.body = "call"
  IN (Returned /\ called) =>
       /\ o.effects = {}
       /\ IF c.top # "call" /\ c.catches
          THEN o.res.success /\ o.res.result = Some("recovered")
          ELSE ~o.res.success /\ Truthy(o.res.error)

C15_MissingEntryReportedBeforeUserCode ==
  LET c == sandbox.call.code
      o == sandbox.out[1]
  IN (Returned /\ Evaluated /\ c.entry = "none") =>
       /\ ~o.res.success
       /\ o.res.error = runErrorOf(EntryMissingError)
       /\ o.ran = 0
       /\ o.log = 0

\* C16: every failure is normalized.  Whatever the code throws, and whatever
\* fails in the engine, the result has success = false and an error message
\* that is not empty; success = true only when run returned normally and
\* there was no timeout.
ReturnedNormally ==
  /\ BodyReached
  /\ runBody(sandbox.call.code).kind = "return"

C16_FailuresAreNormalized ==
  LET o == sandbox.out[1]
  IN Returned =>
       /\ ~ReturnedNormally => (~o.res.success /\ Truthy(o.res.error))
       /\ o.res.success => (ReturnedNormally /\ ~o.interrupted)

\* C17: secrets never cross to the renderer in plaintext.  For every table
\* that differs from the stored one only in the values of its secrets (the
\* same keys, stored the same way), settings:getSecret,
\* settings:listSecretKeys, settings:setSecret and settings:deleteSecret
\* respond as they do for the stored one, whatever the arguments; the
\* response of settings:setSecret does not depend on the value being set;
\* settings:getSecret returns a boolean.
SecretVariants(store) ==
  {t \in [DOMAIN store -> [enc : {"plain", "safeStorage"}, value : SecretValues]] :
     \A k \in DOMAIN store : t[k].enc = store[k].enc}

C18_ExportImportRoundTrip ==
  [][\A a \in StoreIds :
       (/\ lastCall.op = "agents:export"
        /\ lastCall.ok
        /\ lastCall.arg[1] = a
        /\ importAgent(lastCall.arg[2], MaxStored))
       => LET new == agentSeq'
              orig == rowToAgent(agents[a])
              copy == rowToAgent(agents'[new])
          IN /\ lastCall'.ok
             /\ new # a
             /\ new \notin DOMAIN agents
             /\ new \in DOMAIN agents'
             /\ a \in DOMAIN agents'
             /\ agents'[a] = agents[a]
             /\ orig.kind = "agent"
             /\ copy.kind = "agent"
             /\ copy.agent.permissions = orig.agent.permissions
             /\ copy.agent.graph = orig.agent.graph
             /\ copy.agent.codeBlocks = orig.agent.codeBlocks
             /\ copy.agent.provider = orig.agent.provider
             /\ copy.agent.systemPrompt = orig.agent.systemPrompt
             /\ copy.agent.tags = orig.agent.tags
             /\ copy.agent.auditEnabled = orig.agent.auditEnabled]_vars

C18_Witness ==
  /\ lastCall.op = "agents:import"
  /\ lastCall.ok
  /\ DOMAIN agents = {1, 2}
  /\ agents[1] # agents[2]
  /\ rowToAgent(agents[1]) = rowToAgent(agents[2])
  /\ EnabledIn(agents, 2, "codeExec")
  /\ agents[2].audit_enabled = 0

\* C19: the audit log is append-only with monotonic ids.  Every appended
\* entry has an id greater than every id ever inserted, also after
\* clearAuditLog or pruneAuditLog; no operation changes a field of an entry
\* that stays in the table; queryAuditLog returns its entries in strictly
\* descending id order.
AuditIds(log) == {log[i].id : i \in 1..Len(log)}

StrictlyDescending(entries) ==
  \A i, j \in 1..Len(entries) : i < j => entries[i].id > entries[j].id

C19_AuditLogAppendOnlyMonotonic ==
  /\ [](/\ \A i \in 1..Len(auditLog) : auditLog[i].id <= auditSeq
        /\ \A i, j \in 1..Len(auditLog) :
             i < j => auditLog[i].id < auditLog[j].id
        /\ \A q \in QueryInputs :
             StrictlyDescending(queryAuditLog(auditLog, q).entries))
  /\ [][/\ auditSeq' >= auditSeq
        /\ \A i \in 1..Len(auditLog') :
             IF auditLog'[i].id \in AuditIds(auditLog)
             THEN \E j \in 1..Len(auditLog) : auditLog[j] = auditLog'[i]
             ELSE auditLog'[i].id > auditSeq]_vars

\* Two entries written after a clear of two older ones, then queried.
C19_Witness ==
  /\ Len(auditLog) = 2
  /\ auditLog[1].id = 3
  /\ auditLog[2].id = 4
  /\ auditSeq = 4
  /\ lastCall.op = "audit:query"
  /\ Len(lastCall.arg[1].entries) = 2
  /\ lastCall.arg[1].entries[1].id = 4

\* C20: a run works on the snapshot of the agent taken at start.  An
\* updateAgent or deleteAgent on the agent while the run is active changes
\* neither the name, the permissions nor the auditEnabled value the run
\* holds; the text the run streams names the agent as run-started did, and
\* its run-completed is audited exactly when its run-started was (and the
\* INSERT succeeded), whatever the agent's row says by then.
AuditedBy(e, eventType) ==
  \E i \in 1..Len(auditLog) :
    auditLog[i].by = e /\ auditLog[i].eventType = eventType

NameAtStart(e) == events[e][1].data[2]

C20_RunUsesSnapshotTakenAtStart ==
  /\ [](\A e \in DOMAIN exec :
          /\ exec[e].name = NameAtStart(e)
          /\ exec[e].auditEnabled =
               (AuditedBy(e, "run-started") \/ exec[e].startAuditFailed)
          /\ \A i \in 1..Len(events[e]) :
               events[e][i].type = "run-completed" =>
                 /\ events[e][i].data =
                      responseText(NameAtStart(e), exec[e].userMessage)
                 /\ AuditedBy(e, "run-completed") =
                      (AuditedBy(e, "run-started") /\ ~exec[e].endAuditFailed))
  /\ [][\A e \in DOMAIN exec :
          /\ exec'[e].name = exec[e].name
          /\ exec'[e].permissions = exec[e].permissions
          /\ exec'[e].auditEnabled = exec[e].auditEnabled]_vars

\* The agent's row was changed after the run started and before its last
\* chunk: the run still holds the values of its start.
C20_Witness ==
  \E e \in DOMAIN exec :
    /\ exec[e].status = "streaming"
    /\ lastCall.op = "agents:update"
    /\ lastCall.ok
    /\ getAgent(exec[e].agentId).kind = "agent"
    /\ getAgent(exec[e].agentId).agent.name # exec[e].name
    /\ getAgent(exec[e].agentId).agent.permissions # exec[e].permissions
    /\ getAgent(exec[e].agentId).agent.auditEnabled # exec[e].auditEnabled

\* C21: after an allow-session decision for a shell-command confirmation, an
\* identical command issued again in the same run is not prompted again: the
\* step registers no new pending confirmation and no requires-confirmation
\* event is emitted.
CommandOf(c) ==
  LET evs == events[confOf[c]]
      i == CHOOSE i \in 1..Len(evs) :
             evs[i].type = "requires-confirmation" /\ evs[i].data[1] = c
  IN evs[i].data[2]

ApprovedForSession(e, command) ==
  \E c \in DOMAIN confOf :
    /\ confOf[c] = e
    /\ CommandOf(c) = command
    /\ \E i \in 1..Len(resolved[c]) : resolved[c][i] = "allow-session"

C21_AllowSessionSkipsIdenticalCommand ==
  [][\A e \in DOMAIN exec, k \in Commands :
       (ApprovedForSession(e, k)
        /\ StepRequiresConfirmation(e, k, MaxPrompts)) =>
         /\ activeRuns' = activeRuns
         /\ events' = events]_vars

\* C22: each pending confirmation is resolved at most once.  The call of
\* runner.confirm that invokes the resolve-callback of a confirmation removes
\* it from the confirmations map of its run, and every later confirm with
\* that id invokes nothing and returns a failure.  As stated, the failure is
\* always 'Confirmation not found':
ResolvedAtMostOnce ==
  /\ [](\A c \in DOMAIN resolved : Len(resolved[c]) <= 1)
  /\ [][\A r \in RunIds, c \in PendingIds, d \in Decisions :
          (RunnerConfirm(r, c, d) /\ resolved' # resolved) =>
            /\ c \in DOMAIN resolved
            /\ resolved' = [resolved EXCEPT ![c] = <<d>>]
            /\ c \in activeRuns[r].confirmations
            /\ c \notin activeRuns'[r].confirmations]_vars

C22_Original ==
  /\ ResolvedAtMostOnce
  /\ [][\A r \in RunIds, c \in DOMAIN resolved, d \in Decisions :
          (resolved[c] # <<>> /\ RunnerConfirm(r, c, d)) =>
            /\ resolved' = resolved
            /\ ~lastCall'.ok
            /\ lastCall'.error = "Confirmation not found"]_vars

\* C22, amended: the failure of a later confirm is 'Confirmation not found'
\* while the runId it names has a RunState, and 'Run not found' once that
\* run has completed or was stopped.
C22_ResolvedAtMostOnce ==
  /\ ResolvedAtMostOnce
  /\ [][\A r \in RunIds, c \in DOMAIN resolved, d \in Decisions :
          (resolved[c] # <<>> /\ RunnerConfirm(r, c, d)) =>
            /\ resolved' = resolved
            /\ activeRuns' = activeRuns
            /\ ~lastCall'.ok
            /\ lastCall'.error = IF r \in DOMAIN activeRuns
                                 THEN "Confirmation not found"
                                 ELSE "Run not found"]_vars

\* A second confirm for a confirmation that was resolved, its run still
\* streaming.
C22_Witness ==
  /\ lastCall.op = "runner:confirm"
  /\ ~lastCall.ok
  /\ lastCall.error = "Confirmation not found"
  /\ lastCall.arg[2] \in DOMAIN resolved
  /\ Len(resolved[lastCall.arg[2]]) = 1
  /\ exec[confOf[lastCall.arg[2]]].runId = lastCall.arg[1]
  /\ OwnsEntry(confOf[lastCall.arg[2]])

\* C23: several confirmations of one run can be pending at once and each is
\* resolved on its own.  A runner.confirm for one confirmation invokes the
\* resolver of no other, leaves every other pending confirmation, of that
\* run and of every other run, in its map, and a confirm for a pending
\* confirmation succeeds with the decision it carries.
PendingIn(runs) ==
  {<<r, c>> \in RunIds \X PendingIds :
     r \in DOMAIN runs /\ c \in runs[r].confirmations}

C23_ConfirmationsIndependentlyResolvable ==
  [][\A r \in RunIds, c \in PendingIds, d \in Decisions :
       RunnerConfirm(r, c, d) =>
         /\ \A c2 \in DOMAIN resolved \ {c} : resolved'[c2] = resolved[c2]
         /\ PendingIn(activeRuns) \ {<<r, c>>} \subseteq PendingIn(activeRuns')
         /\ <<r, c>> \in PendingIn(activeRuns) =>
              (lastCall'.ok /\ resolved'[c] = <<d>>)]_vars

\* Two confirmations of one run were pending together and got different
\* decisions, while a confirmation of another run is still pending.
C23_Witness ==
  /\ DOMAIN confOf = {1, 2, 3}
  /\ \E c1, c2, c3 \in PendingIds :
       /\ confOf[c1] = confOf[c2]
       /\ confOf[c3] # confOf[c1]
       /\ c1 < c2
       /\ resolved[c1] = <<"deny">>
       /\ resolved[c2] = <<"allow-once">>
       /\ lastCall = ok("runner:confirm", <<exec[confOf[c1]].runId, c1>>)
       /\ <<exec[confOf[c3]].runId, c3>> \in PendingIn(activeRuns)

\* C25: a RunState exists for a runId only from a successful start until
\* that run's completion, error or stop: no RunState remains after a start
\* attempt that did not lead to a running run.
C25_NoRunStateWithoutRunningRun ==
  \A r \in DOMAIN activeRuns :
    /\ exec[activeRuns[r].owner].ackOk
    /\ exec[activeRuns[r].owner].status = "streaming"

C27_RunStateRemovedOnlyByOwnRun ==
  [][\A e \in DOMAIN exec :
       (/\ OwnsEntry(e)
        /\ exec[e].status = "streaming"
        /\ exec'[e].status = "streaming"
        /\ ~RunnerStop(exec[e].runId))
       => /\ exec[e].runId \in DOMAIN activeRuns'
          /\ activeRuns'[exec[e].runId] = activeRuns[exec[e].runId]]_vars

\* C28: every agent row written by createAgent can be read back: getAgent
\* on the new id returns the agent, it passes AgentDefinitionSchema.
C28_CreatedAgentReadsBack ==
  [][\A n \in Names :
       (Len(n) >= 1 /\ createAgent(n, MaxStored)) =>
         rowToAgent(agents'[agentSeq']).kind = "agent"]_vars

\* The message the window handles next, and whether it is an event of a run
\* other than the store's current one.
NextMessage == Head(renderer.channel)

IsEvent(msg) == msg.type # "reply"

\* C24: in the renderer store a pending confirmation does not outlive its
\* run and is not lost while unanswered.  After a run-completed or run-error
\* event of the current run, and after stopRun, pendingConfirmation is null;
\* a requires-confirmation event that arrives while a confirmation is
\* pending leaves that confirmation in the store.
C24_PendingConfirmationBoundToRun ==
  [][(renderer.channel # <<>> /\ Deliver) =>
       /\ (/\ IsEvent(NextMessage)
           /\ NextMessage.type \in TerminalTypes
           /\ renderer.store.runId = Some(NextMessage.runId))
          => renderer'.store.pendingConfirmation = None
       /\ (~IsEvent(NextMessage) /\ NextMessage.op = "runner:stop")
          => renderer'.store.pendingConfirmation = None
       /\ (/\ IsEvent(NextMessage)
           /\ NextMessage.type = "requires-confirmation"
           /\ renderer.store.pendingConfirmation # None)
          => renderer'.store.pendingConfirmation =
               renderer.store.pendingConfirmation]_vars

\* C29: the renderer store applies runner events only to the run they
\* belong to.  An event whose runId is not the store's current runId changes
\* neither isRunning, activeNodeId, streamingText nor the console entries.
C29_EventsOfOtherRunsIgnored ==
  [][(/\ renderer.channel # <<>>
      /\ IsEvent(NextMessage)
      /\ renderer.store.runId # Some(NextMessage.runId)
      /\ Deliver)
     => /\ renderer'.store.isRunning = renderer.store.isRunning
        /\ renderer'.store.activeNodeId = renderer.store.activeNodeId
        /\ renderer'.store.streamingText = renderer.store.streamingText
        /\ renderer'.store.consoleEntries = renderer.store.consoleEntries]_vars

\* C30: isRunning is true only while a run the controller accepted is in
\* progress.  When the reply to the runner.start of startRun is a failure
\* the store has isRunning = false once startRun has ended.
C30_FailedStartClearsIsRunning ==
  [][(/\ renderer.channel # <<>>
      /\ ~IsEvent(NextMessage)
      /\ NextMessage.op = "runner:start"
      /\ ~NextMessage.ok
      /\ Deliver)
     => ~renderer'.store.isRunning]_vars

====
